---- MODULE Spec2Model ----
(***************************************************************************)
(* State machine of src/App.tsx: the App component's seven useState cells, *)
(* the handlers handleImageUpload and handleSubmit, and the asynchronous   *)
(* continuations of a submission (FileReader events and the two awaited    *)
(* service calls).  Every submission that passes validation is a "run": a  *)
(* closure over the uploadedImage and userPrompt of the render it was      *)
(* created in.  JavaScript is single threaded, so each handler and each    *)
(* continuation between two awaits is one atomic step.                     *)
(***************************************************************************)
EXTENDS Naturals, Sequences, FiniteSets, TLC

(* ---- bounds ---------------------------------------------------------- *)

\* number of runs that may be in flight at the same time
MaxRuns == 2

(* ---- values ---------------------------------------------------------- *)

\* JavaScript null for the string-valued cells (no service text equals it)
NULL == "null"

\* useState<ImageFileWithPreview | null>(null): <<>> is null, <<img>> an image
NoImage == <<>>

\* enum AppState
Idle == "IDLE"

LoadingDescriptivePrompt == "LOADING_DESCRIPTIVE_PROMPT"

LoadingGeneratedImage == "LOADING_GENERATED_IMAGE"

Success == "SUCCESS"

Error == "ERROR"

AppState == {Idle, LoadingDescriptivePrompt, LoadingGeneratedImage, Success, Error}

\* the File objects the uploader can hand over: MIME type and content (base64)
Files == { [type |-> "image/png", base64 |-> "iVBORw0K"],
           [type |-> "image/jpeg", base64 |-> "/9j/4AAQ"] }

\* the object URL the uploader creates for a file
PreviewUrls == {"blob:preview-1", "blob:preview-2"}

\* userPrompt values, as sequences of characters: "", " \t", " a ", "b"
Prompts == { <<>>, <<" ", "\t">>, <<" ", "a", " ">>, <<"b">> }

WhiteSpace == {" ", "\t", "\n"}

\* texts generateDescriptivePrompt can resolve with
DescriptiveTexts == {"A red bicycle on a beach", "A red bicycle under a purple sky"}

\* base64 image bytes generateImageFromPrompt can resolve with
ImageBytes == {"AAAA", "BBBB"}

\* err.message of a rejected service call; "" is an error without a message
ErrMessages == {"", "quota exceeded"}

\* the `process` global the bundle runs with: whether it is defined, whether it
\* has an env, whether env has an API_KEY, and the key as a sequence of
\* characters (a key of 9 and a key of 10 characters among them)
Processes ==
    { [defined |-> FALSE, env |-> FALSE, hasKey |-> FALSE, API_KEY |-> <<>>],
      [defined |-> TRUE, env |-> FALSE, hasKey |-> FALSE, API_KEY |-> <<>>],
      [defined |-> TRUE, env |-> TRUE, hasKey |-> FALSE, API_KEY |-> <<>>],
      [defined |-> TRUE, env |-> TRUE, hasKey |-> TRUE, API_KEY |-> <<>>],
      [defined |-> TRUE, env |-> TRUE, hasKey |-> TRUE,
       API_KEY |-> << "Y", "O", "U", "R", "_", "A", "P", "I", "_", "K", "E", "Y" >>],
      [defined |-> TRUE, env |-> TRUE, hasKey |-> TRUE,
       API_KEY |-> << "A", "I", "z", "a", "S", "y", "1", "2", "3" >>],
      [defined |-> TRUE, env |-> TRUE, hasKey |-> TRUE,
       API_KEY |-> << "A", "I", "z", "a", "S", "y", "1", "2", "3", "4" >>] }

\* the three results of getApiKeyStatus, as sequences of pieces of text
StatusNotConfigured ==
    << "API Key ", "not", " configured. Please set the API_KEY environment variable." >>

StatusPlaceholder ==
    << "API Key ", "seems", " to be a placeholder. Please configure it correctly." >>

StatusDetected == << "API Key ", "detected", " (validation not performed)." >>

ValidationMessage == "Please upload an image and provide an editing prompt."

GenerationFallback == "Failed to generate image. Please check API key and try again."

ReadErrorMessage == "Failed to read uploaded image."

(* ---- pure functions -------------------------------------------------- *)

RECURSIVE TrimStart(_)
TrimStart(s) ==
    IF s = <<>> THEN s
    ELSE IF Head(s) \in WhiteSpace THEN TrimStart(Tail(s)) ELSE s

RECURSIVE TrimEnd(_)
TrimEnd(s) ==
    IF s = <<>> THEN s
    ELSE IF s[Len(s)] \in WhiteSpace THEN TrimEnd(SubSeq(s, 1, Len(s) - 1)) ELSE s

\* the check `!userPrompt` without the trim
Trim_Missing(s) == s

\* String.prototype.trim
Trim(s) == TrimEnd(TrimStart(s))

\* reader.result after a successful readAsDataURL, as a sequence of tokens
\* in which the comma is a token of its own
ReadAsDataURL(file) == << "data:", file.type, ";base64", ",", file.base64 >>

RECURSIVE Join(_)
Join(tokens) == IF tokens = <<>> THEN "" ELSE Head(tokens) \o Join(Tail(tokens))

\* String.prototype.split(','): the pieces between the separator tokens
RECURSIVE Split(_, _)
Split(tokens, sep) ==
    IF tokens = <<>> THEN << <<>> >>
    ELSE LET rest == Split(Tail(tokens), sep)
         IN  IF Head(tokens) = sep
             THEN << <<>> >> \o rest
             ELSE << <<Head(tokens)>> \o Head(rest) >> \o Tail(rest)

\* base64WithPrefix.split(',')[1]
Base64Data(result) == Join(Split(result, ",")[2])

\* the data URI labelled with another image type
ImageUrl_Png(imageBytes) == "data:image/png;base64," \o imageBytes

\* `data:image/jpeg;base64,${imageBytes}`
ImageUrl(imageBytes) == "data:image/jpeg;base64," \o imageBytes

\* the fallback shown whatever the service said
MessageOr_AlwaysFallback(message, fallback) == fallback

\* err.message || fallback
MessageOr(message, fallback) == IF message # "" THEN message ELSE fallback

\* String.prototype.startsWith
StartsWith(text, prefix) ==
    /\ Len(prefix) <= Len(text)
    /\ SubSeq(text, 1, Len(prefix)) = prefix

\* a placeholder test that also rejects keys of exactly 10 characters
GetApiKeyStatus_OffByOne(proc) ==
    IF ~ proc.defined \/ ~ proc.env \/ ~ proc.hasKey \/ proc.API_KEY = <<>>
    THEN StatusNotConfigured
    ELSE IF proc.API_KEY = << "Y", "O", "U", "R", "_", "A", "P", "I", "_", "K", "E", "Y" >>
              \/ Len(proc.API_KEY) <= 10
         THEN StatusPlaceholder
         ELSE StatusDetected

\* getApiKeyStatus
GetApiKeyStatus(proc) ==
    IF ~ proc.defined \/ ~ proc.env \/ ~ proc.hasKey \/ proc.API_KEY = <<>>
    THEN StatusNotConfigured
    ELSE IF proc.API_KEY = << "Y", "O", "U", "R", "_", "A", "P", "I", "_", "K", "E", "Y" >>
              \/ Len(proc.API_KEY) < 10
         THEN StatusPlaceholder
         ELSE StatusDetected

(* ---- state ----------------------------------------------------------- *)

VARIABLES
    uploadedImage,        \* NoImage or <<[file, previewUrl]>>
    userPrompt,           \* sequence of characters
    isLoading,
    generatedImageUrl,    \* NULL or a string
    error,                \* NULL or a string
    appState,
    intermediatePrompt,   \* NULL or a string
    process,              \* the `process` global, fixed when the page loads
    runs                  \* the runs in flight and those ended since the last
                          \* submission that passed validation, in order

vars == << uploadedImage, userPrompt, isLoading, generatedImageUrl, error,
           appState, intermediatePrompt, process, runs >>

\* positions of a run in handleSubmit
\*   reading   readAsDataURL issued, no reader event yet
\*   stage1    awaiting generateDescriptivePrompt
\*   stage2    awaiting generateImageFromPrompt
\*   succeeded, failed1, failed2 (a service rejected), readFailed (reader
\*   error event)
InFlightPhases == {"reading", "stage1", "stage2"}

InFlight(run) == run.phase \in InFlightPhases

RunIds == 1..Len(runs)

\* the runs still in flight, in order
Pending == SelectSeq(runs, InFlight)

\* the values appState takes from the call of handleSubmit until the run ends
Observe(run, state) ==
    IF InFlight(run) /\ run.seen[Len(run.seen)] # state
    THEN [run EXCEPT !.seen = Append(@, state)]
    ELSE run

\* every run in flight sees the new appState; run r moves as given
Step(r, moved, state) ==
    [i \in DOMAIN runs |->
        IF i = r THEN [Observe(runs[i], state) EXCEPT
                          !.phase = moved.phase,
                          !.calls1 = moved.calls1,
                          !.calls2 = moved.calls2,
                          !.args1 = moved.args1,
                          !.args2 = moved.args2,
                          !.descriptivePrompt = moved.descriptivePrompt,
                          !.imageBytes = moved.imageBytes,
                          !.thrown = moved.thrown]
        ELSE Observe(runs[i], state)]

NewRun(image, prompt) ==
    [ phase |-> "reading",
      file |-> image.file,
      userPrompt |-> prompt,
      calls1 |-> 0,
      calls2 |-> 0,
      args1 |-> <<>>,
      args2 |-> <<>>,
      descriptivePrompt |-> NULL,
      imageBytes |-> NULL,
      thrown |-> NULL,
      seen |-> <<appState>> ]

Init ==
    /\ uploadedImage = NoImage
    /\ userPrompt = <<>>
    /\ isLoading = FALSE
    /\ generatedImageUrl = NULL
    /\ error = NULL
    /\ appState = Idle
    /\ intermediatePrompt = NULL
    /\ process \in Processes
    /\ runs = <<>>

(* ---- handlers -------------------------------------------------------- *)

\* an upload that leaves the last error on display
HandleImageUpload_KeepsError(file, previewUrl) ==
    /\ uploadedImage' = << [file |-> file, previewUrl |-> previewUrl] >>
    /\ generatedImageUrl' = NULL
    /\ appState' = Idle
    /\ runs' = [i \in DOMAIN runs |-> Observe(runs[i], Idle)]
    /\ UNCHANGED << userPrompt, isLoading, error, intermediatePrompt, process >>

\* an upload that also resets the loading flag
HandleImageUpload_ResetsLoading(file, previewUrl) ==
    /\ uploadedImage' = << [file |-> file, previewUrl |-> previewUrl] >>
    /\ generatedImageUrl' = NULL
    /\ error' = NULL
    /\ appState' = Idle
    /\ isLoading' = FALSE
    /\ runs' = [i \in DOMAIN runs |-> Observe(runs[i], Idle)]
    /\ UNCHANGED << userPrompt, intermediatePrompt, process >>

\* handleImageUpload(file, previewUrl)
HandleImageUpload(file, previewUrl) ==
    /\ uploadedImage' = << [file |-> file, previewUrl |-> previewUrl] >>
    /\ generatedImageUrl' = NULL
    /\ error' = NULL
    /\ appState' = Idle
    /\ runs' = [i \in DOMAIN runs |-> Observe(runs[i], Idle)]
    /\ UNCHANGED << userPrompt, isLoading, intermediatePrompt, process >>

\* PromptInput onChange={setUserPrompt}; rendered only under an uploaded image
SetUserPrompt(value) ==
    /\ uploadedImage # NoImage
    /\ userPrompt' = value
    /\ UNCHANGED << uploadedImage, isLoading, generatedImageUrl, error,
                    appState, intermediatePrompt, runs, process >>

\* a submission that starts the run without clearing what the last one left
HandleSubmit_NoReset ==
    IF uploadedImage = NoImage \/ Trim(userPrompt) = <<>>
    THEN /\ error' = ValidationMessage
         /\ UNCHANGED << uploadedImage, userPrompt, isLoading, generatedImageUrl,
                         appState, intermediatePrompt, runs, process >>
    ELSE /\ Len(Pending) < MaxRuns
         /\ isLoading' = TRUE
         /\ appState' = LoadingDescriptivePrompt
         /\ runs' = Append([i \in DOMAIN Pending |->
                               Observe(Pending[i], LoadingDescriptivePrompt)],
                           Observe(NewRun(uploadedImage[1], userPrompt),
                                   LoadingDescriptivePrompt))
         /\ UNCHANGED << uploadedImage, userPrompt, error, generatedImageUrl,
                         intermediatePrompt, process >>

\* handleSubmit, up to the end of its synchronous part.  readAsDataURL of a
\* new FileReader on a File starts the read and does not throw, so the outer
\* catch is not entered; the two reader handlers are installed before any
\* reader event can fire.
HandleSubmit ==
    IF uploadedImage = NoImage \/ Trim(userPrompt) = <<>>
    THEN /\ error' = ValidationMessage
         /\ UNCHANGED << uploadedImage, userPrompt, isLoading, generatedImageUrl,
                         appState, intermediatePrompt, runs, process >>
    ELSE /\ Len(Pending) < MaxRuns
         /\ isLoading' = TRUE
         /\ error' = NULL
         /\ generatedImageUrl' = NULL
         /\ intermediatePrompt' = NULL
         /\ appState' = LoadingDescriptivePrompt
         /\ runs' = Append([i \in DOMAIN Pending |->
                               Observe(Pending[i], LoadingDescriptivePrompt)],
                           Observe(NewRun(uploadedImage[1], userPrompt),
                                   LoadingDescriptivePrompt))
         /\ UNCHANGED << uploadedImage, userPrompt, process >>

\* the submit button: rendered under an uploaded image, and
\* disabled={isLoading || !uploadedImage || !userPrompt.trim()}
TriggerEnabled ==
    /\ uploadedImage # NoImage
    /\ ~ (isLoading \/ uploadedImage = NoImage \/ Trim(userPrompt) = <<>>)

\* the header shows the status in red when it starts with "API Key not" or
\* "API Key seems", and "Gemini API Ready" otherwise
ApiKeyWarning ==
    LET apiKeyStatus == GetApiKeyStatus(process)
    IN  \/ StartsWith(apiKeyStatus, << "API Key ", "not" >>)
        \/ StartsWith(apiKeyStatus, << "API Key ", "seems" >>)

\* onClick={handleSubmit}
ClickSubmit == TriggerEnabled /\ HandleSubmit

\* reader.onloadend after a successful read: up to the first await
ReaderLoadEnd(r) ==
    /\ runs[r].phase = "reading"
    /\ LET base64WithPrefix == ReadAsDataURL(runs[r].file)
           base64Data == Base64Data(base64WithPrefix)
           mimeType == runs[r].file.type
       IN  runs' = Step(r, [runs[r] EXCEPT
                               !.phase = "stage1",
                               !.calls1 = @ + 1,
                               !.args1 = << base64Data, mimeType, runs[r].userPrompt >>],
                        appState)
    /\ UNCHANGED << uploadedImage, userPrompt, isLoading, generatedImageUrl,
                    error, appState, intermediatePrompt, process >>

\* onloadend going on to stage 1 after the reader's error event
ReaderError_CallsStage1(r) ==
    /\ runs[r].phase = "reading"
    /\ error' = ReadErrorMessage
    /\ isLoading' = FALSE
    /\ appState' = Error
    /\ runs' = Step(r, [runs[r] EXCEPT
                           !.phase = "readFailed",
                           !.calls1 = @ + 1,
                           !.args1 = << NULL, runs[r].file.type, runs[r].userPrompt >>],
                    Error)
    /\ UNCHANGED << uploadedImage, userPrompt, generatedImageUrl, intermediatePrompt, process >>

\* the reader fires error, then loadend with reader.result = null: onerror
\* runs, then onloadend throws at the split, before its try
ReaderError(r) ==
    /\ runs[r].phase = "reading"
    /\ error' = ReadErrorMessage
    /\ isLoading' = FALSE
    /\ appState' = Error
    /\ runs' = Step(r, [runs[r] EXCEPT !.phase = "readFailed"], Error)
    /\ UNCHANGED << uploadedImage, userPrompt, generatedImageUrl, intermediatePrompt, process >>

\* stage 2 called with the intermediatePrompt of the render the run started in
Stage1Resolve_PassesState(r, descriptivePrompt) ==
    /\ runs[r].phase = "stage1"
    /\ intermediatePrompt' = descriptivePrompt
    /\ appState' = LoadingGeneratedImage
    /\ runs' = Step(r, [runs[r] EXCEPT
                           !.phase = "stage2",
                           !.descriptivePrompt = descriptivePrompt,
                           !.calls2 = @ + 1,
                           !.args2 = << intermediatePrompt >>],
                    LoadingGeneratedImage)
    /\ UNCHANGED << uploadedImage, userPrompt, isLoading, generatedImageUrl, error, process >>

\* generateDescriptivePrompt resolves: up to the second await
Stage1Resolve(r, descriptivePrompt) ==
    /\ runs[r].phase = "stage1"
    /\ intermediatePrompt' = descriptivePrompt
    /\ appState' = LoadingGeneratedImage
    /\ runs' = Step(r, [runs[r] EXCEPT
                           !.phase = "stage2",
                           !.descriptivePrompt = descriptivePrompt,
                           !.calls2 = @ + 1,
                           !.args2 = << descriptivePrompt >>],
                    LoadingGeneratedImage)
    /\ UNCHANGED << uploadedImage, userPrompt, isLoading, generatedImageUrl, error, process >>

\* stage 2 fired although stage 1 rejected, its result dropped
Stage1Reject_CallsStage2(r, message) ==
    /\ runs[r].phase = "stage1"
    /\ error' = MessageOr(message, GenerationFallback)
    /\ appState' = Error
    /\ isLoading' = FALSE
    /\ runs' = Step(r, [runs[r] EXCEPT !.phase = "failed1", !.thrown = message,
                                       !.calls2 = @ + 1, !.args2 = << NULL >>], Error)
    /\ UNCHANGED << uploadedImage, userPrompt, generatedImageUrl, intermediatePrompt, process >>

\* generateDescriptivePrompt rejects: catch, finally
Stage1Reject(r, message) ==
    /\ runs[r].phase = "stage1"
    /\ error' = MessageOr(message, GenerationFallback)
    /\ appState' = Error
    /\ isLoading' = FALSE
    /\ runs' = Step(r, [runs[r] EXCEPT !.phase = "failed1", !.thrown = message], Error)
    /\ UNCHANGED << uploadedImage, userPrompt, generatedImageUrl, intermediatePrompt, process >>

\* generateImageFromPrompt resolves: rest of the try, finally
Stage2Resolve(r, imageBytes) ==
    /\ runs[r].phase = "stage2"
    /\ generatedImageUrl' = ImageUrl(imageBytes)
    /\ appState' = Success
    /\ isLoading' = FALSE
    /\ runs' = Step(r, [runs[r] EXCEPT !.phase = "succeeded", !.imageBytes = imageBytes],
                    Success)
    /\ UNCHANGED << uploadedImage, userPrompt, error, intermediatePrompt, process >>

\* a rejected stage 2 called once more
Stage2Reject_Retries(r, message) ==
    /\ runs[r].phase = "stage2"
    /\ runs' = Step(r, [runs[r] EXCEPT !.thrown = message, !.calls2 = @ + 1], appState)
    /\ UNCHANGED << uploadedImage, userPrompt, isLoading, generatedImageUrl, error,
                    appState, intermediatePrompt, process >>

\* a rejection handled without the finally block
Stage2Reject_NoFinally(r, message) ==
    /\ runs[r].phase = "stage2"
    /\ error' = MessageOr(message, GenerationFallback)
    /\ appState' = Error
    /\ runs' = Step(r, [runs[r] EXCEPT !.phase = "failed2", !.thrown = message], Error)
    /\ UNCHANGED << uploadedImage, userPrompt, isLoading, generatedImageUrl,
                    intermediatePrompt, process >>

\* generateImageFromPrompt rejects: catch, finally
Stage2Reject(r, message) ==
    /\ runs[r].phase = "stage2"
    /\ error' = MessageOr(message, GenerationFallback)
    /\ appState' = Error
    /\ isLoading' = FALSE
    /\ runs' = Step(r, [runs[r] EXCEPT !.phase = "failed2", !.thrown = message], Error)
    /\ UNCHANGED << uploadedImage, userPrompt, generatedImageUrl, intermediatePrompt, process >>

(* ---- specifications -------------------------------------------------- *)

Upload == \E file \in Files, previewUrl \in PreviewUrls : HandleImageUpload(file, previewUrl)

EditPrompt == \E value \in Prompts : SetUserPrompt(value)

LoadEnd == \E r \in RunIds : ReaderLoadEnd(r)

ReadFails == \E r \in RunIds : ReaderError(r)

DescriptionArrives == \E r \in RunIds, text \in DescriptiveTexts : Stage1Resolve(r, text)

DescriptionFails == \E r \in RunIds, message \in ErrMessages : Stage1Reject(r, message)

ImageArrives == \E r \in RunIds, bytes \in ImageBytes : Stage2Resolve(r, bytes)

ImageFails == \E r \in RunIds, message \in ErrMessages : Stage2Reject(r, message)

Completions ==
    \/ LoadEnd
    \/ ReadFails
    \/ DescriptionArrives
    \/ DescriptionFails
    \/ ImageArrives
    \/ ImageFails

\* the application as rendered: handleSubmit is reachable through the button only
Next ==
    \/ Upload
    \/ EditPrompt
    \/ ClickSubmit
    \/ LoadEnd
    \/ ReadFails
    \/ DescriptionArrives
    \/ DescriptionFails
    \/ ImageArrives
    \/ ImageFails

Spec == Init /\ [][Next]_vars

\* handleSubmit called directly, whatever the button shows; the caller issues
\* no call while a run is in flight
CallSubmit == Pending = <<>> /\ HandleSubmit

NextDirect ==
    \/ Upload
    \/ EditPrompt
    \/ CallSubmit
    \/ LoadEnd
    \/ ReadFails
    \/ DescriptionArrives
    \/ DescriptionFails
    \/ ImageArrives
    \/ ImageFails

SpecDirect == Init /\ [][NextDirect]_vars

\* the reader fires loadend or error for every read, and every service call
\* issued resolves or rejects
SpecLive == Init /\ [][Next]_vars /\ WF_vars(Completions)

(* ---- properties ------------------------------------------------------ *)

Last(s) == s[Len(s)]

\* an instruction that is empty or consists of white space only
IsBlank(prompt) == \A i \in DOMAIN prompt : prompt[i] \in WhiteSpace

\* C1: a run started from Idle whose read and both service calls succeed
\* sees appState take exactly Idle, LoadingDescriptivePrompt,
\* LoadingGeneratedImage, Success, in that order.
C1_ExactSuccessPath ==
    \A r \in RunIds :
        (runs[r].phase = "succeeded" /\ runs[r].seen[1] = Idle)
            => runs[r].seen = << Idle, LoadingDescriptivePrompt,
                                 LoadingGeneratedImage, Success >>

\* C2: appState never steps from Idle to Success or Error; Success is entered
\* from LoadingGeneratedImage only, Error from a loading state only.
C2_NoJumpFromIdle ==
    [][ /\ ~ (appState = Idle /\ appState' \in {Success, Error})
        /\ (appState' = Success /\ appState # Success)
              => appState = LoadingGeneratedImage
        /\ (appState' = Error /\ appState # Error)
              => appState \in {LoadingDescriptivePrompt, LoadingGeneratedImage}
      ]_vars

\* C3: handleSubmit with no image or a blank instruction (empty or white
\* space only) issues no read and no service call and leaves appState,
\* isLoading, generatedImageUrl and intermediatePrompt as they were.
C3_ValidationLeavesStateUnchanged ==
    [][ (HandleSubmit /\ (uploadedImage = NoImage \/ IsBlank(userPrompt)))
            => /\ runs' = runs
               /\ appState' = appState
               /\ isLoading' = isLoading
               /\ generatedImageUrl' = generatedImageUrl
               /\ intermediatePrompt' = intermediatePrompt
      ]_vars

\* handleSubmit was refused for a white-space-only instruction under an image
C3_Witness ==
    /\ error = ValidationMessage
    /\ uploadedImage # NoImage
    /\ userPrompt = << " ", "\t" >>
    /\ runs = <<>>

\* the steps in which a run ends in an error
RunFails(r) ==
    /\ r \in DOMAIN runs'
    /\ InFlight(runs[r])
    /\ runs'[r].phase \in {"failed1", "failed2", "readFailed"}

\* C4 as stated: every error, the validation error included, sets appState
\* to Error and leaves a non-null message.
C4_EveryErrorSetsError ==
    [][ /\ (HandleSubmit /\ (uploadedImage = NoImage \/ IsBlank(userPrompt)))
              => (appState' = Error /\ error' # NULL)
        /\ \A r \in RunIds : RunFails(r) => (appState' = Error /\ error' # NULL)
      ]_vars

\* C4 amended: a read error or a service error sets appState to Error and
\* shows the reader message, the service's own message when it has one, or
\* the generic fallback; a validation error shows its message and leaves
\* appState as it was.
C4_RunErrorsSetError ==
    [][ /\ (HandleSubmit /\ (uploadedImage = NoImage \/ IsBlank(userPrompt)))
              => (appState' = appState /\ error' = ValidationMessage)
        /\ \A r \in RunIds : RunFails(r) =>
              /\ appState' = Error
              /\ error' # NULL
              /\ error' = IF runs'[r].phase = "readFailed"
                             THEN "Failed to read uploaded image."
                          ELSE IF runs'[r].thrown # ""
                             THEN runs'[r].thrown
                          ELSE "Failed to generate image. Please check API key and try again."
      ]_vars

\* a service error with a message of its own is on display
C4_Witness ==
    \E r \in RunIds :
        /\ runs[r].phase = "failed2"
        /\ runs[r].thrown = "quota exceeded"
        /\ error = "quota exceeded"
        /\ appState = Error

\* C5: a run whose generateDescriptivePrompt call failed has made no call of
\* generateImageFromPrompt and ended with appState = Error.
C5_NoStage2AfterStage1Failure ==
    \A r \in RunIds :
        runs[r].phase = "failed1"
            => /\ runs[r].calls1 = 1
               /\ runs[r].calls2 = 0
               /\ Last(runs[r].seen) = Error

C5_Witness ==
    \E r \in RunIds : runs[r].phase = "failed1" /\ appState = Error /\ ~ isLoading

\* C6: a run whose stage 1 succeeded and whose generateImageFromPrompt call
\* failed ended with appState = Error; no image is exposed, and the
\* descriptive prompt of stage 1 is still set.
C6_NoImageAfterStage2Failure ==
    \A r \in RunIds :
        runs[r].phase = "failed2"
            => /\ Last(runs[r].seen) = Error
               /\ generatedImageUrl = NULL
               /\ runs[r].descriptivePrompt # NULL
               /\ intermediatePrompt = runs[r].descriptivePrompt

\* stage 2 failed in a run submitted while the image of an earlier run was shown
C6_Witness ==
    \E r \in RunIds :
        /\ runs[r].phase = "failed2"
        /\ runs[r].seen[1] = Success
        /\ appState = Error
        /\ intermediatePrompt = "A red bicycle on a beach"

\* C7: a run started while appState = Error has error, generatedImageUrl and
\* the previous intermediatePrompt cleared from its start on, and when its
\* read and both calls succeed it ends in Success with error still null and
\* intermediatePrompt the text its own stage 1 returned.
C7_RerunWithoutResidue ==
    \A r \in RunIds :
        runs[r].seen[1] = Error
            => /\ InFlight(runs[r])
                    => /\ error = NULL
                       /\ generatedImageUrl = NULL
                       /\ intermediatePrompt = runs[r].descriptivePrompt
               /\ runs[r].phase = "succeeded"
                    => /\ Last(runs[r].seen) = Success
                       /\ error = NULL
                       /\ intermediatePrompt = runs[r].descriptivePrompt

\* a run started from Error succeeded, with a stage-1 text of its own
C7_Witness ==
    \E r \in RunIds :
        /\ runs[r].seen[1] = Error
        /\ runs[r].phase = "succeeded"
        /\ appState = Success
        /\ intermediatePrompt = "A red bicycle under a purple sky"

\* C8: with submissions through the enabled button only, at most one run is
\* in flight, and the button is never enabled while a file read or a
\* service call of a run is outstanding.
C8_OneRunInFlight ==
    /\ Len(Pending) <= 1
    /\ TriggerEnabled => Pending = <<>>

\* a run is in flight, the inputs are valid, an image was uploaded meanwhile
C8_Witness ==
    /\ Len(Pending) = 1
    /\ appState = Idle
    /\ uploadedImage # NoImage
    /\ ~ IsBlank(userPrompt)
    /\ userPrompt # Pending[1].userPrompt
    /\ uploadedImage[1].file # Pending[1].file

\* C9: a run that has started ends, with appState Success or Error and
\* isLoading false, whatever the user does while it is in flight.
C9_RunCompletes ==
    (Pending # <<>>) ~> (/\ Pending = <<>>
                         /\ runs # <<>>
                         /\ appState \in {Success, Error}
                         /\ ~ isLoading)

\* a run ended although an image was uploaded while it was in flight
C9_Witness ==
    \E r \in RunIds :
        /\ ~ InFlight(runs[r])
        /\ \E i \in 2..Len(runs[r].seen) : runs[r].seen[i] = Idle
        /\ uploadedImage[1].file # runs[r].file
        /\ appState \in {Success, Error}
        /\ ~ isLoading

\* C10: generatedImageUrl is set in the step in which a run succeeds and
\* appState becomes Success, to 'data:image/jpeg;base64,' followed by the
\* bytes generateImageFromPrompt returned in that run, whatever the type of
\* the uploaded file.
C10_JpegDataUri ==
    [][ /\ \A r \in RunIds :
              (r \in DOMAIN runs' /\ InFlight(runs[r]) /\ runs'[r].phase = "succeeded")
                  => /\ runs'[r].imageBytes \in ImageBytes
                     /\ generatedImageUrl' = "data:image/jpeg;base64," \o runs'[r].imageBytes
                     /\ appState' = Success
        /\ (generatedImageUrl' # NULL /\ generatedImageUrl' # generatedImageUrl)
              => \E r \in RunIds :
                     r \in DOMAIN runs' /\ InFlight(runs[r]) /\ runs'[r].phase = "succeeded"
      ]_vars

\* the data URI of a run on a PNG upload
C10_Witness ==
    \E r \in RunIds :
        /\ runs[r].phase = "succeeded"
        /\ runs[r].file.type = "image/png"
        /\ runs[r].imageBytes = "BBBB"
        /\ generatedImageUrl = "data:image/jpeg;base64,BBBB"
        /\ appState = Success

\* C11: the warning is shown exactly when the API key is absent or empty, is
\* "YOUR_API_KEY", or has fewer than 10 characters; the button is enabled
\* exactly when an image is uploaded, the instruction is not blank and no
\* run is loading, whatever the key.
C11_WarningDoesNotBlock ==
    LET absent == ~ (process.defined /\ process.env /\ process.hasKey)
        key == process.API_KEY
    IN  /\ ApiKeyWarning <=>
              \/ absent
              \/ Len(key) = 0
              \/ key = << "Y", "O", "U", "R", "_", "A", "P", "I", "_", "K", "E", "Y" >>
              \/ Len(key) < 10
        /\ TriggerEnabled <=>
              (uploadedImage # NoImage /\ ~ isLoading /\ ~ IsBlank(userPrompt))

\* a run was started and called a service while the placeholder key was warned about
C11_Witness ==
    /\ ApiKeyWarning
    /\ process.API_KEY = << "Y", "O", "U", "R", "_", "A", "P", "I", "_", "K", "E", "Y" >>
    /\ \E r \in RunIds : runs[r].phase = "stage2"

\* C12: a run calls each service at most once; an error thrown by a service
\* ends the run; a run that has ended makes no further call, and its place
\* is taken only by the new run of a later handleSubmit.
C12_NoRetry ==
    [][ \A r \in RunIds :
          /\ runs[r].calls1 <= 1 /\ runs[r].calls2 <= 1
          /\ r \in DOMAIN runs' =>
                /\ runs'[r].calls1 <= 1 /\ runs'[r].calls2 <= 1
                /\ runs'[r].thrown # NULL => ~ InFlight(runs'[r])
                /\ (~ InFlight(runs[r]) /\ runs'[r] # runs[r])
                      => /\ runs'[r].phase = "reading"
                         /\ runs'[r].calls1 = 0 /\ runs'[r].calls2 = 0
                         /\ appState' = LoadingDescriptivePrompt
      ]_vars

\* stage 2 failed after one call of each service, and the run has ended
C12_Witness ==
    \E r \in RunIds :
        /\ runs[r].phase = "failed2"
        /\ runs[r].calls1 = 1 /\ runs[r].calls2 = 1
        /\ ~ isLoading

\* the call of a service that has neither resolved nor rejected
Stage1Outstanding(run) ==
    run.calls1 > 0 /\ run.descriptivePrompt = NULL /\ run.thrown = NULL

Stage2Outstanding(run) ==
    run.calls2 > 0 /\ run.imageBytes = NULL /\ run.thrown = NULL

\* C13: generateImageFromPrompt is called only after generateDescriptivePrompt
\* of the same run has resolved, with exactly the text it resolved with, which
\* is the text in intermediatePrompt; the two calls are never outstanding
\* together.
C13_Stage2AfterStage1 ==
    \A r \in RunIds :
        /\ runs[r].calls2 > 0
              => /\ runs[r].calls1 = 1
                 /\ runs[r].descriptivePrompt \in DescriptiveTexts
                 /\ runs[r].args2 = << runs[r].descriptivePrompt >>
        /\ runs[r].descriptivePrompt = NULL => (runs[r].calls2 = 0 /\ runs[r].args2 = <<>>)
        /\ Stage2Outstanding(runs[r]) => intermediatePrompt = runs[r].args2[1]
        /\ \A q \in RunIds : ~ (Stage1Outstanding(runs[r]) /\ Stage2Outstanding(runs[q]))

\* stage 2 is outstanding in a run started while another prompt was on display
C13_Witness ==
    \E r \in RunIds :
        /\ Stage2Outstanding(runs[r])
        /\ runs[r].seen[1] = Success
        /\ runs[r].args2 = << "A red bicycle under a purple sky" >>
        /\ intermediatePrompt = "A red bicycle under a purple sky"

\* C14: generateDescriptivePrompt is not called before the file is read, and
\* gets its whole content; a run whose read failed called neither service
\* and ended with appState = Error, isLoading false and the message
\* 'Failed to read uploaded image.'.
C14_ReadBeforeStage1 ==
    \A r \in RunIds :
        /\ runs[r].phase = "reading" => (runs[r].calls1 = 0 /\ runs[r].calls2 = 0)
        /\ runs[r].calls1 > 0
              => runs[r].args1 = << runs[r].file.base64, runs[r].file.type,
                                    runs[r].userPrompt >>
        /\ runs[r].phase = "readFailed"
              => /\ runs[r].calls1 = 0 /\ runs[r].calls2 = 0
                 /\ Last(runs[r].seen) = Error
                 /\ ~ isLoading
                 /\ appState = Error => error = "Failed to read uploaded image."

\* the read of a run failed and its message is on display
C14_Witness ==
    \E r \in RunIds :
        /\ runs[r].phase = "readFailed"
        /\ appState = Error
        /\ error = "Failed to read uploaded image."
        /\ ~ isLoading

\* C15: isLoading is true exactly when appState is LoadingDescriptivePrompt
\* or LoadingGeneratedImage, also after an upload during a run.
C15_LoadingIffLoadingState ==
    isLoading <=> appState \in {LoadingDescriptivePrompt, LoadingGeneratedImage}

\* C16: appState = Success implies an image and no error; appState = Error
\* implies an error and no image; an error is shown only under appState =
\* Error.
C16_StatusAgreesWithData ==
    /\ appState = Success => (generatedImageUrl # NULL /\ error = NULL)
    /\ appState = Error => (error # NULL /\ generatedImageUrl = NULL)
    /\ error # NULL => appState = Error

\* an error is on display after a run that replaced a shown image
C16_Witness ==
    /\ appState = Error
    /\ error = "quota exceeded"
    /\ generatedImageUrl = NULL
    /\ \E r \in RunIds : runs[r].seen[1] = Success

\* C17: an image on display comes from a run on the image now uploaded.
C17_ImageFromCurrentUpload ==
    generatedImageUrl # NULL
        => \E r \in RunIds :
               /\ runs[r].phase = "succeeded"
               /\ uploadedImage # NoImage
               /\ runs[r].file = uploadedImage[1].file

\* C18: handleImageUpload puts the new (file, previewUrl) pair in
\* uploadedImage, sets generatedImageUrl and error to null and appState to
\* Idle, and leaves userPrompt, isLoading and intermediatePrompt alone.
C18_UploadFrame ==
    [][ \A file \in Files, previewUrl \in PreviewUrls :
          (\/ HandleImageUpload(file, previewUrl)
           \/ /\ uploadedImage' # uploadedImage
              /\ uploadedImage' = << [file |-> file, previewUrl |-> previewUrl] >>)
             => /\ uploadedImage' = << [file |-> file, previewUrl |-> previewUrl] >>
                /\ generatedImageUrl' = NULL
                /\ error' = NULL
                /\ appState' = Idle
                /\ userPrompt' = userPrompt
                /\ isLoading' = isLoading
                /\ intermediatePrompt' = intermediatePrompt
      ]_vars

\* another image was uploaded while stage 2 of a run was outstanding
C18_Witness ==
    /\ appState = Idle
    /\ isLoading
    /\ intermediatePrompt # NULL
    /\ userPrompt = << "b" >>
    /\ uploadedImage # NoImage
    /\ uploadedImage[1].previewUrl = "blob:preview-2"
    /\ \E r \in RunIds : runs[r].phase = "stage2" /\ runs[r].file # uploadedImage[1].file

TypeOK ==
    /\ uploadedImage \in {NoImage} \cup
           { << [file |-> f, previewUrl |-> p] >> : f \in Files, p \in PreviewUrls }
    /\ userPrompt \in Prompts
    /\ isLoading \in BOOLEAN
    /\ process \in Processes
    /\ appState \in AppState
    /\ Len(Pending) <= MaxRuns
    /\ \A r \in RunIds : runs[r].calls1 \in 0..1 /\ runs[r].calls2 \in 0..1
====
